---- MODULE Spec2Model ----
(***************************************************************************)
(* Delivery-tracking synchronisation job of the order dashboard: the       *)
(* django-q2 schedule "tracking_status_updater", the order selector, the   *)
(* per-order refresh tasks and the packing-slip edits of the admin UI.     *)
(***************************************************************************)
EXTENDS Integers, Sequences, FiniteSets, TLC

\* ------------------------------------------------------------------ bounds
NumOrders == 2
MaxRuns == 2
MaxEdits == 1
MaxSchedules == 3
NumSlips == 2
MaxListLoads == 2
MaxLoads == 4

\* ------------------------------------------------------- program constants
DefaultInterval == 720
CustomInterval == 60

OrderIds == 1..NumOrders
Intervals == {DefaultInterval, CustomInterval}

\* ----------------------------------------------------------------- strings
\* Free-text statuses are sequences of characters, so that lower-casing and
\* substring search are computed and not assumed.
UpperAlpha == <<"A","B","C","D","E","F","G","H","I","J","K","L","M",
                "N","O","P","Q","R","S","T","U","V","W","X","Y","Z">>
LowerAlpha == <<"a","b","c","d","e","f","g","h","i","j","k","l","m",
                "n","o","p","q","r","s","t","u","v","w","x","y","z">>

LowerChar(c) ==
    IF \E i \in 1..26 : UpperAlpha[i] = c
    THEN LowerAlpha[CHOOSE i \in 1..26 : UpperAlpha[i] = c]
    ELSE c

Lower(s) == [i \in 1..Len(s) |-> LowerChar(s[i])]

Contains(s, sub) ==
    \E i \in 0..(Len(s) - Len(sub)) : SubSeq(s, i + 1, i + Len(sub)) = sub

DELIVERED == <<"d","e","l","i","v","e","r","e","d">>

NoStatus == << >>
InTransit == <<"I","n"," ","T","r","a","n","s","i","t">>
Delivered == <<"D","e","l","i","v","e","r","e","d">>
DeliveredFrontDoor == <<"D","e","l","i","v","e","r","e","d",","," ",
                        "F","r","o","n","t"," ","D","o","o","r">>

\* What the carrier service can report for a parcel.
CarrierTexts == {InTransit, Delivered, DeliveredFrontDoor}
\* What the tracking_status column can hold (the edit form takes free text).
StatusTexts == {NoStatus} \cup CarrierTexts

OrderStatuses == {"new_order", "shipped"}
Vendors == {"", "ups"}
TrackingIds == {"", "1Z999"}

VARIABLES
    orders,      \* packing slips: id -> record
    apiKeySet,   \* a Track123 API key is stored in the settings
    workerUp,    \* the qcluster worker process is running
    schedules,   \* django-q Schedule rows named tracking_status_updater
    nextSchedule,\* next Schedule row id
    now,         \* wall clock, minutes
    runs,        \* executions of the job, in order of creation
    tasks,       \* per-order refresh tasks in flight
    results,     \* per-order result records
    edits,       \* number of saves made through the admin UI
    lastSel,     \* eligible set of the latest selection
    quiet,       \* nothing but the job's own tasks touched the store since then
    reply,       \* answer to the latest start, stop or status request
    answers,     \* what the carrier service and the store answer, per order
    \* the dashboard in the browser: AuthRoute
    token,         \* localStorage holds an access token
    location,      \* the route the browser is on
    loading,       \* AuthRoute's loading state
    authCheck,     \* position of useAuth's checkUser
    user,          \* user info in the store
    \* the PackingSlips page
    slipData,      \* the packing slips the server lists
    slipsMounted,  \* the page component is mounted
    packingSlips,  \* the page's list, empty until loaded
    slipsFetching, \* the page's fetching state
    listLoads,     \* list requests in flight
    fetchingStatus,\* per-record flag of the fetch-status button
    statusRequests,\* fetch-tracking-status requests in flight
    links,         \* tracking links rendered in the table
    \* the EMB HUB page
    hubPc,           \* "unmounted", "accounts" (loadAccounts in flight), "ready"
    accounts,        \* Drive accounts offered in the selector
    selectedAccount, \* <<id, email>> of the selected account, or none
    currentFolderId, \* folder navigated to
    currentPath,     \* breadcrumb of the listing shown
    folders,         \* folders of the listing shown
    files,           \* files of the listing shown
    fetching,        \* the page's fetching state
    loads,           \* loadFolderContents requests in flight
    issued,          \* number of loadFolderContents requests sent
    latest           \* outcome of the request sent last

authVars == <<token, location, loading, authCheck, user>>
slipVars == <<slipData, slipsMounted, packingSlips, slipsFetching, listLoads,
              fetchingStatus, statusRequests, links>>
hubVars == <<hubPc, accounts, selectedAccount, currentFolderId, currentPath,
             folders, files, fetching, loads, issued, latest>>

\* What the operations of the tracking service leave alone.
rest == <<answers, authVars, slipVars, hubVars>>

\* What the operations of the dashboard leave alone.
service == <<orders, apiKeySet, workerUp, schedules, nextSchedule, now, runs,
             tasks, results, edits, lastSel, quiet, reply, answers>>

vars == <<orders, apiKeySet, workerUp, schedules, nextSchedule, now, runs,
          tasks, results, edits, lastSel, quiet, reply, rest>>

\* ----------------------------------------------------------- order selector
\* tracking_status = 'delivered' (case-insensitive)
LowerOf == [text \in StatusTexts |-> Lower(text)]

IsDeliveredCaseSensitive(text) == text = DELIVERED
IsDelivered(text) == LowerOf[text] = DELIVERED

HasTrackingVendorOnly(o) == o.tracking_vendor # ""
HasTracking(o) == o.tracking_ids # "" /\ o.tracking_vendor # ""

EligibleOrderAnyStatus(o) ==
    /\ HasTracking(o)
    /\ ~IsDelivered(o.tracking_status)

EligibleOrder(o) ==
    /\ o.status = "shipped"
    /\ HasTracking(o)
    /\ ~IsDelivered(o.tracking_status)

selectEligibleOrders == {id \in OrderIds : EligibleOrder(orders[id])}

\* ---------------------------------------------------------------- scheduler
NewSchedule(interval) ==
    [id |-> nextSchedule, interval |-> interval, next_run |-> now + interval]

\* schedule_tracking_updates: the rows of the job name are replaced by one
\* new row, in one step.
schedule_tracking_updates(interval) ==
    /\ nextSchedule <= MaxSchedules
    /\ schedules' = {NewSchedule(interval)}
    /\ nextSchedule' = nextSchedule + 1

ScheduleKeepingOld(interval) ==
    /\ nextSchedule <= MaxSchedules
    /\ schedules' = schedules \cup {NewSchedule(interval)}
    /\ nextSchedule' = nextSchedule + 1

NoSchedulerChange == UNCHANGED <<schedules, nextSchedule>>

Reply(action, interval, force, schedule_id, active) ==
    [action |-> action, interval |-> interval, force |-> force,
     schedule_id |-> schedule_id, active |-> active]

NoReply == Reply("none", 0, FALSE, 0, FALSE)

\* POST scheduler {action: start, interval}: answers with the new schedule_id.
ApiStartKeepingOld(interval) ==
    /\ ScheduleKeepingOld(interval)
    /\ reply' = Reply("start", interval, FALSE, nextSchedule, TRUE)
    /\ UNCHANGED <<orders, apiKeySet, workerUp, now, runs, tasks, results,
                   edits, lastSel, quiet>>
    /\ UNCHANGED rest

ApiStart(interval) ==
    /\ schedule_tracking_updates(interval)
    /\ reply' = Reply("start", interval, FALSE, nextSchedule, TRUE)
    /\ UNCHANGED <<orders, apiKeySet, workerUp, now, runs, tasks, results,
                   edits, lastSel, quiet>>
    /\ UNCHANGED rest

\* manage.py start_tracking_scheduler [--interval N] [--force]: restarts a
\* scheduler that is already running only under --force.
CommandStartAlways(interval, force) ==
    /\ schedule_tracking_updates(interval)
    /\ reply' = Reply("command", interval, force, nextSchedule, TRUE)

CommandStartForceAdds(interval, force) ==
    IF schedules # {} /\ ~force
    THEN /\ NoSchedulerChange
         /\ reply' = Reply("command", interval, force, 0, TRUE)
    ELSE /\ ScheduleKeepingOld(interval)
         /\ reply' = Reply("command", interval, force, nextSchedule, TRUE)

CommandStartEffect(interval, force) ==
    IF schedules # {} /\ ~force
    THEN /\ NoSchedulerChange
         /\ reply' = Reply("command", interval, force, 0, TRUE)
    ELSE /\ schedule_tracking_updates(interval)
         /\ reply' = Reply("command", interval, force, nextSchedule, TRUE)

CommandStart(interval, force) ==
    /\ CommandStartEffect(interval, force)
    /\ UNCHANGED <<orders, apiKeySet, workerUp, now, runs, tasks, results,
                   edits, lastSel, quiet>>
    /\ UNCHANGED rest

\* manage.py qcluster: the worker starts, and the schedule is created with
\* the default interval when there is none.
AutoStartEffectHourly ==
    IF schedules # {}
    THEN NoSchedulerChange
    ELSE schedule_tracking_updates(CustomInterval)

AutoStartEffect ==
    IF schedules # {}
    THEN NoSchedulerChange
    ELSE schedule_tracking_updates(DefaultInterval)

WorkerStart ==
    /\ ~workerUp
    /\ workerUp' = TRUE
    /\ AutoStartEffect
    /\ UNCHANGED <<orders, apiKeySet, now, runs, tasks, results, edits,
                   lastSel, quiet, reply>>
    /\ UNCHANGED rest

\* POST scheduler {action: stop}
cancel_other_schedule == UNCHANGED schedules

cancel_tracking_schedule == schedules' = {}

ApiStopCancellingTasks ==
    /\ cancel_tracking_schedule
    /\ reply' = Reply("stop", 0, FALSE, 0, FALSE)
    /\ tasks' = {}
    /\ UNCHANGED <<orders, apiKeySet, workerUp, nextSchedule, now, runs,
                   results, edits, lastSel, quiet>>
    /\ UNCHANGED rest

ApiStopRejectingStopped ==
    /\ IF schedules = {}
       THEN /\ UNCHANGED schedules
            /\ reply' = Reply("error", 0, FALSE, 0, FALSE)
       ELSE /\ cancel_tracking_schedule
            /\ reply' = Reply("stop", 0, FALSE, 0, FALSE)
    /\ UNCHANGED <<orders, apiKeySet, workerUp, nextSchedule, now, runs,
                   tasks, results, edits, lastSel, quiet>>
    /\ UNCHANGED rest

ApiStop ==
    /\ cancel_tracking_schedule
    /\ reply' = Reply("stop", 0, FALSE, 0, FALSE)
    /\ UNCHANGED <<orders, apiKeySet, workerUp, nextSchedule, now, runs,
                   tasks, results, edits, lastSel, quiet>>
    /\ UNCHANGED rest

\* POST scheduler {action: status}
ApiStatus ==
    /\ reply' = Reply("status", 0, FALSE, 0, schedules # {})
    /\ UNCHANGED <<orders, apiKeySet, workerUp, schedules, nextSchedule, now,
                   runs, tasks, results, edits, lastSel, quiet>>
    /\ UNCHANGED rest

\* The cluster's scheduler loop finds the row due, queues the job function
\* and moves next_run one interval on.
Max(a, b) == IF a >= b THEN a ELSE b

NewRun(kind, pc, selected) ==
    [kind |-> kind, pc |-> pc, selected |-> selected]

Fire(s) ==
    /\ workerUp
    /\ s \in schedules
    /\ Len(runs) < MaxRuns
    /\ now' = Max(now, s.next_run)
    /\ schedules' = (schedules \ {s})
                    \cup {[s EXCEPT !.next_run = Max(now, s.next_run) + s.interval]}
    /\ runs' = Append(runs, NewRun("all", "triggered", {}))
    /\ UNCHANGED <<orders, apiKeySet, workerUp, nextSchedule, tasks, results,
                   edits, lastSel, quiet, reply>>
    /\ UNCHANGED rest

\* POST scheduler {action: run_now}: trigger_immediate_update queues the job
\* function once; the schedule is not read or written.
ApiRunNowBySchedule ==
    /\ Len(runs) < MaxRuns
    /\ runs' = Append(runs, NewRun("all", "triggered", {}))
    /\ schedules' = {[s EXCEPT !.next_run = now] : s \in schedules}
    /\ UNCHANGED <<orders, apiKeySet, workerUp, nextSchedule, now,
                   tasks, results, edits, lastSel, quiet, reply>>
    /\ UNCHANGED rest

ApiRunNow ==
    /\ Len(runs) < MaxRuns
    /\ runs' = Append(runs, NewRun("all", "triggered", {}))
    /\ UNCHANGED <<orders, apiKeySet, workerUp, schedules, nextSchedule, now,
                   tasks, results, edits, lastSel, quiet, reply>>
    /\ UNCHANGED rest

\* ------------------------------------------------------------ refresh tasks
NewTask(r, id) ==
    [run |-> r, order |-> id, pc |-> "queued"]

Result(t, success, skipped, error) ==
    [run |-> t.run, order |-> t.order, success |-> success,
     skipped |-> skipped, error |-> error, new_status |-> NoStatus,
     is_delivered |-> FALSE]

\* update_all_pending_orders, run by a worker: one selection, one task per
\* eligible order.
UpdateAllPending(r) ==
    /\ runs' = [runs EXCEPT ![r].pc = "draining",
                            ![r].selected = selectEligibleOrders]
    /\ tasks' = tasks \cup {NewTask(r, id) : id \in selectEligibleOrders}
    /\ lastSel' = selectEligibleOrders
    /\ quiet' = TRUE

TickSelect(r) ==
    /\ workerUp
    /\ r \in DOMAIN runs
    /\ runs[r].pc = "triggered"
    /\ UpdateAllPending(r)
    /\ UNCHANGED <<orders, apiKeySet, workerUp, schedules, nextSchedule, now,
                   results, edits, reply>>
    /\ UNCHANGED rest

ManualAllShipped ==
    LET shipped == {id \in OrderIds : /\ orders[id].status = "shipped"
                                      /\ HasTracking(orders[id])}
    IN  /\ Len(runs) < MaxRuns
        /\ runs' = Append(runs, NewRun("all", "draining", shipped))
        /\ tasks' = tasks \cup {NewTask(Len(runs) + 1, id) : id \in shipped}
        /\ lastSel' = shipped
        /\ quiet' = TRUE
        /\ UNCHANGED <<orders, apiKeySet, workerUp, schedules, nextSchedule,
                       now, results, edits, reply>>
        /\ UNCHANGED rest

\* POST tracking/update {}: the same selection, made by the web process.
ManualAll ==
    /\ Len(runs) < MaxRuns
    /\ runs' = Append(runs, NewRun("all", "draining", selectEligibleOrders))
    /\ tasks' = tasks \cup {NewTask(Len(runs) + 1, id) : id \in selectEligibleOrders}
    /\ lastSel' = selectEligibleOrders
    /\ quiet' = TRUE
    /\ UNCHANGED <<orders, apiKeySet, workerUp, schedules, nextSchedule, now,
                   results, edits, reply>>
    /\ UNCHANGED rest

\* POST tracking/update {order_id}: one order, whatever the selector says.
ManualOne(id) ==
    /\ Len(runs) < MaxRuns
    /\ runs' = Append(runs, NewRun("single", "draining", {id}))
    /\ tasks' = tasks \cup {NewTask(Len(runs) + 1, id)}
    /\ quiet' = FALSE
    /\ UNCHANGED <<orders, apiKeySet, workerUp, schedules, nextSchedule, now,
                   results, edits, lastSel, reply>>
    /\ UNCHANGED rest

Finish(t, res) ==
    /\ tasks' = tasks \ {t}
    /\ results' = results \cup {res}

\* update_single_order_tracking, up to the carrier request: the order is
\* read, and the carrier is queried unless the order is already delivered,
\* has no tracking information, or no API key is configured.
PreflightNoKeyCheck(o, key) ==
    IF IsDelivered(o.tracking_status) THEN "skipped"
    ELSE IF ~HasTracking(o) THEN "NoTracking"
    ELSE "query"

PreflightNoDeliveredCheck(o, key) ==
    IF ~HasTracking(o) THEN "NoTracking"
    ELSE IF ~key THEN "ConfigMissing"
    ELSE "query"

Preflight(o, key) ==
    IF IsDelivered(o.tracking_status) THEN "skipped"
    ELSE IF ~HasTracking(o) THEN "NoTracking"
    ELSE IF ~key THEN "ConfigMissing"
    ELSE "query"

TaskStartSilentSkip(t) ==
    /\ t \in tasks
    /\ t.pc = "queued"
    /\ LET outcome == Preflight(orders[t.order], apiKeySet)
       IN  IF outcome = "query"
           THEN /\ tasks' = (tasks \ {t}) \cup {[t EXCEPT !.pc = "fetching"]}
                /\ UNCHANGED results
           ELSE /\ tasks' = tasks \ {t}
                /\ UNCHANGED results
    /\ UNCHANGED <<orders, apiKeySet, workerUp, schedules, nextSchedule, now,
                   runs, edits, lastSel, quiet, reply>>
    /\ UNCHANGED rest

TaskStartClearingStatus(t) ==
    /\ t \in tasks
    /\ t.pc = "queued"
    /\ LET outcome == Preflight(orders[t.order], apiKeySet)
       IN  IF outcome = "query"
           THEN /\ tasks' = (tasks \ {t}) \cup {[t EXCEPT !.pc = "fetching"]}
                /\ orders' = [orders EXCEPT ![t.order].tracking_status = NoStatus]
                /\ UNCHANGED results
           ELSE /\ Finish(t, Result(t, outcome = "skipped", outcome = "skipped",
                                    IF outcome = "skipped" THEN "" ELSE outcome))
                /\ UNCHANGED orders
    /\ UNCHANGED <<apiKeySet, workerUp, schedules, nextSchedule, now,
                   runs, edits, lastSel, quiet, reply>>
    /\ UNCHANGED rest

TaskStart(t) ==
    /\ t \in tasks
    /\ t.pc = "queued"
    /\ LET outcome == Preflight(orders[t.order], apiKeySet)
       IN  IF outcome = "query"
           THEN /\ tasks' = (tasks \ {t}) \cup {[t EXCEPT !.pc = "fetching"]}
                /\ UNCHANGED results
           ELSE Finish(t, Result(t, outcome = "skipped", outcome = "skipped",
                                 IF outcome = "skipped" THEN "" ELSE outcome))
    /\ UNCHANGED <<orders, apiKeySet, workerUp, schedules, nextSchedule, now,
                   runs, edits, lastSel, quiet, reply>>
    /\ UNCHANGED rest

\* Tracking client adapter: the carrier's text is the status text; it is
\* classified delivered by equality or by containment, as the vendor needs.
Semantics == {"equals", "contains"}

Classify(sem, text) ==
    IF sem = "contains" THEN Contains(LowerOf[text], DELIVERED)
    ELSE LowerOf[text] = DELIVERED

FailureKinds == {"Transient", "ProtocolError"}

\* The carrier request fails: the failure is recorded for the order, the
\* stored record is left as it is, and the other tasks go on.
OnAdapterFailureAbortBatch(t, kind) ==
    /\ tasks' = {u \in tasks : u.run # t.run}
    /\ results' = results \cup {Result(t, FALSE, FALSE, kind)}
    /\ UNCHANGED orders

OnAdapterFailureClearStatus(t, kind) ==
    /\ Finish(t, Result(t, FALSE, FALSE, kind))
    /\ orders' = [orders EXCEPT ![t.order].tracking_status = NoStatus]

OnAdapterFailure(t, kind) ==
    /\ Finish(t, Result(t, FALSE, FALSE, kind))
    /\ UNCHANGED orders

TaskFails(t, kind) ==
    /\ t \in tasks
    /\ t.pc = "fetching"
    /\ OnAdapterFailure(t, kind)
    /\ UNCHANGED <<apiKeySet, workerUp, schedules, nextSchedule, now, runs,
                   edits, lastSel, quiet, reply>>
    /\ UNCHANGED rest

\* The carrier request returns a status: the adapter's result is written to
\* the order in one single-row update of tracking_status and updated_at, or
\* the write fails and the row is left as it was.
TrackingResult(text, sem) ==
    [status_text |-> text, is_delivered |-> Classify(sem, text)]

TrackingResults ==
    {TrackingResult(text, sem) : text \in CarrierTexts, sem \in Semantics}

WriteStatusOnly(id, tr, ok) ==
    IF ok
    THEN orders' = [orders EXCEPT ![id].tracking_status = tr.status_text]
    ELSE UNCHANGED orders

WriteTrackingByVendor(id, tr, ok) ==
    IF ok
    THEN orders' = [x \in OrderIds |->
                      IF orders[x].tracking_vendor = orders[id].tracking_vendor
                      THEN [orders[x] EXCEPT !.tracking_status = tr.status_text,
                                             !.updated_at = now]
                      ELSE orders[x]]
    ELSE UNCHANGED orders

WriteTrackingByNumber(id, tr, ok) ==
    IF ok
    THEN orders' = [x \in OrderIds |->
                      IF orders[x].tracking_ids = orders[id].tracking_ids
                      THEN [orders[x] EXCEPT !.tracking_status = tr.status_text,
                                             !.updated_at = now]
                      ELSE orders[x]]
    ELSE UNCHANGED orders

WriteAndCloseOrder(id, tr, ok) ==
    IF ok
    THEN orders' = [orders EXCEPT
                      ![id].tracking_status = tr.status_text,
                      ![id].updated_at = now,
                      ![id].status = IF tr.is_delivered THEN "delivered" ELSE @]
    ELSE UNCHANGED orders

WriteTracking(id, tr, ok) ==
    IF ok
    THEN orders' = [orders EXCEPT ![id].tracking_status = tr.status_text,
                                  ![id].updated_at = now]
    ELSE UNCHANGED orders

Updated(t, tr) ==
    [Result(t, TRUE, FALSE, "") EXCEPT !.new_status = tr.status_text,
                                       !.is_delivered = tr.is_delivered]

TaskReturnsRetrying(t, tr, ok) ==
    /\ t \in tasks
    /\ t.pc = "fetching"
    /\ WriteTracking(t.order, tr, ok)
    /\ IF ok
       THEN Finish(t, Updated(t, tr))
       ELSE /\ tasks' = (tasks \ {t}) \cup {[t EXCEPT !.pc = "queued"]}
            /\ UNCHANGED results
    /\ UNCHANGED <<apiKeySet, workerUp, schedules, nextSchedule, now, runs,
                   edits, lastSel, quiet, reply>>
    /\ UNCHANGED rest

TaskReturns(t, tr, ok) ==
    /\ t \in tasks
    /\ t.pc = "fetching"
    /\ WriteTracking(t.order, tr, ok)
    /\ Finish(t, IF ok THEN Updated(t, tr)
                 ELSE Result(t, FALSE, FALSE, "StorageError"))
    /\ UNCHANGED <<apiKeySet, workerUp, schedules, nextSchedule, now, runs,
                   edits, lastSel, quiet, reply>>
    /\ UNCHANGED rest

\* What the carrier service and the store answer to a task, decided before
\* the task runs: a failure of the request, or a status and whether the write
\* of it succeeds.
Answer(error, tr, ok) == [error |-> error, tr |-> tr, ok |-> ok]

Answers ==
    {Answer(kind, TrackingResult(InTransit, "equals"), FALSE) : kind \in FailureKinds}
    \cup {Answer("", tr, ok) : tr \in TrackingResults, ok \in BOOLEAN}

NoAnswers == << >>

TaskAnswered(t) ==
    /\ t.order \in DOMAIN answers
    /\ LET a == answers[t.order]
       IN  IF a.error # ""
           THEN TaskFails(t, a.error)
           ELSE TaskReturns(t, a.tr, a.ok)

\* The execution is complete once each of its tasks has an outcome; its
\* summary counts the result records.
RunResults(r) == {res \in results : res.run = r}

RunComplete(r) ==
    /\ runs[r].pc = "draining"
    /\ \A t \in tasks : t.run # r

Summary(r) ==
    [attempted |-> Cardinality(RunResults(r)),
     succeeded |-> Cardinality({x \in RunResults(r) : x.success}),
     failed |-> Cardinality({x \in RunResults(r) : ~x.success}),
     reasons |-> {<<x.order, x.error>> : x \in {y \in RunResults(r) : ~y.success}}]

\* ------------------------------------------------------------- the admin UI
OrderRecord(status, ids, vendor, text, at) ==
    [status |-> status, tracking_ids |-> ids, tracking_vendor |-> vendor,
     tracking_status |-> text, updated_at |-> at]

\* PUT packing-slips/{id} from the order form: the record is sent whole,
\* with one field changed by the user.
EditedRecords(o) ==
    {[o EXCEPT !.status = st] : st \in OrderStatuses}
    \cup {[o EXCEPT !.tracking_ids = ids] : ids \in TrackingIds}
    \cup {[o EXCEPT !.tracking_vendor = v] : v \in Vendors}
    \cup {[o EXCEPT !.tracking_status = text] : text \in StatusTexts}

EditOrder(id, rec) ==
    /\ edits < MaxEdits
    /\ edits' = edits + 1
    /\ rec # orders[id]
    /\ orders' = [orders EXCEPT ![id] = [rec EXCEPT !.updated_at = now]]
    /\ quiet' = FALSE
    /\ UNCHANGED <<apiKeySet, workerUp, schedules, nextSchedule, now, runs,
                   tasks, results, lastSel, reply>>
    /\ UNCHANGED rest

\* The Track123 API key field of the settings form.
SaveSettings(key) ==
    /\ edits < MaxEdits
    /\ edits' = edits + 1
    /\ apiKeySet # key
    /\ apiKeySet' = key
    /\ UNCHANGED <<orders, workerUp, schedules, nextSchedule, now, runs,
                   tasks, results, lastSel, quiet, reply>>
    /\ UNCHANGED rest

\* -------------------------------------------------- the dashboard: AuthRoute
NoUser == "none"

\* What GET me can answer: a user, an empty body, or an error.
Responses ==
    {[ok |-> TRUE, data |-> "admin"], [ok |-> TRUE, data |-> NoUser],
     [ok |-> FALSE, data |-> NoUser]}

\* AuthRoute returns the layout with its children once loading is false.
Rendered == location = "app" /\ ~loading

logout ==
    /\ token' = FALSE
    /\ location' = "/login"

\* authHandler after the request: the body of the response, null when the
\* request failed.
authHandler(response) ==
    IF response.ok THEN response.data ELSE NoUser

\* useAuth's effect up to the request: without a stored token authHandler
\* returns null at once and the error callback logs out.
CheckUser ==
    /\ location = "app"
    /\ authCheck = "start"
    /\ IF ~token
       THEN /\ logout
            /\ authCheck' = "done"
       ELSE /\ authCheck' = "request"
            /\ UNCHANGED <<token, location>>
    /\ UNCHANGED <<loading, user>>
    /\ UNCHANGED <<service, slipVars, hubVars>>

MeRespondsTrusting(response) ==
    /\ location = "app"
    /\ authCheck = "request"
    /\ authCheck' = "done"
    /\ user' = authHandler(response)
    /\ loading' = FALSE
    /\ UNCHANGED <<token, location>>
    /\ UNCHANGED <<service, slipVars, hubVars>>

\* The request of authHandler settles and checkUser goes on.
MeResponds(response) ==
    /\ location = "app"
    /\ authCheck = "request"
    /\ authCheck' = "done"
    /\ LET u == authHandler(response)
       IN  IF u = NoUser
           THEN /\ logout
                /\ UNCHANGED <<loading, user>>
           ELSE /\ user' = u
                /\ loading' = FALSE
                /\ UNCHANGED <<token, location>>
    /\ UNCHANGED <<service, slipVars, hubVars>>

\* The login form submitted with accepted credentials: the token is stored
\* and the browser goes to a protected route, whose AuthRoute mounts.
Login ==
    /\ location = "/login"
    /\ token' = TRUE
    /\ location' = "app"
    /\ loading' = TRUE
    /\ authCheck' = "start"
    /\ user' = NoUser
    /\ UNCHANGED <<service, slipVars, hubVars>>

\* ------------------------------------------ the dashboard: PackingSlips page
Split(s, sep) ==
    LET cuts == {i \in 1..Len(s) : s[i] = sep}
        RECURSIVE Pieces(_)
        Pieces(from) ==
            IF \E i \in cuts : i >= from
            THEN LET i == CHOOSE k \in cuts :
                              k >= from /\ \A j \in cuts : j >= from => k <= j
                 IN  <<SubSeq(s, from, i - 1)>> \o Pieces(i + 1)
            ELSE <<SubSeq(s, from, Len(s))>>
    IN  Pieces(1)

RECURSIVE TrimStart(_)
TrimStart(s) ==
    IF s # << >> /\ Head(s) = " " THEN TrimStart(Tail(s)) ELSE s

RECURSIVE TrimEnd(_)
TrimEnd(s) ==
    IF s # << >> /\ s[Len(s)] = " " THEN TrimEnd(SubSeq(s, 1, Len(s) - 1)) ELSE s

Trim(s) == TrimEnd(TrimStart(s))

FEDEX == <<"f","e","d","e","x">>
UPS == <<"u","p","s">>
USPS == <<"u","s","p","s">>

FedexBase == "https://www.fedex.com/fedextrack/?trknbr="
UpsBase == "https://www.ups.com/track?loc=null&tracknum="
UspsBase == "https://tools.usps.com/go/TrackConfirmAction?tLabels="

\* A URL is its fixed part followed by the tracking number.
Url(base, id) == [base |-> base, number |-> id]
NoUrl == Url("null", << >>)

getTrackingUrlUntrimmed(vendor, trackingId) ==
    IF trackingId = << >> \/ vendor = << >> THEN NoUrl
    ELSE LET firstTrackingId == Split(trackingId, ",")[1]
         IN  IF firstTrackingId = << >> THEN NoUrl
             ELSE IF Lower(vendor) = FEDEX THEN Url(FedexBase, firstTrackingId)
             ELSE IF Lower(vendor) = UPS THEN Url(UpsBase, firstTrackingId)
             ELSE IF Lower(vendor) = USPS THEN Url(UspsBase, firstTrackingId)
             ELSE NoUrl

getTrackingUrl(vendor, trackingId) ==
    IF trackingId = << >> \/ vendor = << >> THEN NoUrl
    ELSE LET firstTrackingId == Trim(Split(trackingId, ",")[1])
         IN  IF firstTrackingId = << >> THEN NoUrl
             ELSE IF Lower(vendor) = FEDEX THEN Url(FedexBase, firstTrackingId)
             ELSE IF Lower(vendor) = UPS THEN Url(UpsBase, firstTrackingId)
             ELSE IF Lower(vendor) = USPS THEN Url(UspsBase, firstTrackingId)
             ELSE NoUrl

\* Vendors and tracking number lists as the order form lets them be typed.
VendorInputs ==
    {<< >>, <<"u","p","s">>, <<"F","e","d","E","x">>, <<"U","S","P","S">>,
     <<"d","h","l">>}
IdInputs ==
    {<< >>, <<" ">>, <<"1","Z">>, <<" ","1","Z"," ",",","2","Z">>,
     <<",","1","Z">>}

SlipIds == 1..NumSlips
SlipRecord(vendor, ids) == [tracking_vendor |-> vendor, tracking_ids |-> ids]
SlipRecords == {SlipRecord(v, i) : v \in VendorInputs, i \in IdInputs}
NoSlips == << >>
NoFlags == << >>

\* record.tracking_ids && record.tracking_vendor
HasTrackingInfo(record) ==
    record.tracking_ids # << >> /\ record.tracking_vendor # << >>

\* The tracking column's render, per row.
RenderLinks(list) ==
    [i \in DOMAIN list |->
        getTrackingUrl(list[i].tracking_vendor, list[i].tracking_ids)]

\* useGetPackingSlips: the page mounts and requests the list.
SlipsMount ==
    /\ Rendered
    /\ ~slipsMounted
    /\ slipsMounted' = TRUE
    /\ slipsFetching' = TRUE
    /\ listLoads' = listLoads + 1
    /\ UNCHANGED <<slipData, packingSlips, fetchingStatus, statusRequests, links>>
    /\ UNCHANGED <<service, authVars, hubVars>>

\* getPackingSlips after the request: the list is stored and the table
\* rendered, or the request failed; fetching is reset either way.
ListResponds(ok) ==
    /\ listLoads > 0
    /\ listLoads' = listLoads - 1
    /\ slipsFetching' = FALSE
    /\ IF ok
       THEN /\ packingSlips' = slipData
            /\ links' = RenderLinks(slipData)
       ELSE UNCHANGED <<packingSlips, links>>
    /\ UNCHANGED <<slipData, slipsMounted, fetchingStatus, statusRequests>>
    /\ UNCHANGED <<service, authVars, hubVars>>

SetFetchingStatusAlone(prev, id, val) ==
    [k \in {id} |-> val]

\* setFetchingStatus(prev => ({...prev, [record.id]: val}))
SetFetchingStatus(prev, id, val) ==
    [k \in DOMAIN prev \cup {id} |-> IF k = id THEN val ELSE prev[k]]

\* The button's loading property.
Flag(id) == id \in DOMAIN fetchingStatus /\ fetchingStatus[id]

\* handleFetchTrackingStatus up to the request.
handleFetchTrackingStatus(record, id) ==
    IF ~HasTrackingInfo(record)
    THEN UNCHANGED <<fetchingStatus, statusRequests>>
    ELSE /\ fetchingStatus' = SetFetchingStatus(fetchingStatus, id, TRUE)
         /\ statusRequests' = statusRequests \cup {id}

\* A click on a row's fetch-status button, which is rendered for a record
\* with tracking information and takes no click while it is loading.
FetchClick(id) ==
    /\ Rendered
    /\ slipsMounted
    /\ id \in DOMAIN packingSlips
    /\ HasTrackingInfo(packingSlips[id])
    /\ ~Flag(id)
    /\ listLoads + Cardinality(statusRequests) < MaxListLoads
    /\ handleFetchTrackingStatus(packingSlips[id], id)
    /\ UNCHANGED <<slipData, slipsMounted, packingSlips, slipsFetching,
                   listLoads, links>>
    /\ UNCHANGED <<service, authVars, hubVars>>

FetchOutcomes == {"success", "refused", "error"}

\* handleFetchTrackingStatus after the request: on success the list is
\* requested again; the flag is reset whatever the outcome.
FetchResponds(id, outcome) ==
    /\ id \in statusRequests
    /\ statusRequests' = statusRequests \ {id}
    /\ fetchingStatus' = SetFetchingStatus(fetchingStatus, id, FALSE)
    /\ IF outcome = "success"
       THEN /\ slipsFetching' = TRUE
            /\ listLoads' = listLoads + 1
       ELSE UNCHANGED <<slipsFetching, listLoads>>
    /\ UNCHANGED <<slipData, slipsMounted, packingSlips, links>>
    /\ UNCHANGED <<service, authVars, hubVars>>

\* ----------------------------------------------- the dashboard: EMB HUB page
AccountA == [id |-> 1, email |-> "a@drive"]
AccountB == [id |-> 2, email |-> "b@drive"]
HubAccounts == <<AccountA, AccountB>>
NoAccounts == << >>

\* `${account.id}:${account.email}`, and '' while none is selected
AccountKey(account) == <<account.id, account.email>>
NoAccount == << >>
\* selectedAccount.split(':')[1]
EmailOf(key) == key[2]

\* The Drive behind each account: a root with one folder, a file in each.
RootFolder == "null"
SubFolder(email) == IF email = AccountA.email THEN "fa" ELSE "fb"
InDrive(email, folderId) ==
    folderId = RootFolder \/ folderId = SubFolder(email)

FolderContents(email, folderId) ==
    [folders |-> IF folderId = RootFolder THEN {SubFolder(email)} ELSE {},
     files |-> {[name |-> "design.dst", owner |-> email, parent |-> folderId]},
     path |-> IF folderId = RootFolder THEN << >> ELSE <<folderId>>]

\* The page mounts: fetching is set and loadAccounts sends its request.
HubMount ==
    /\ Rendered
    /\ hubPc = "unmounted"
    /\ hubPc' = "accounts"
    /\ fetching' = TRUE
    /\ UNCHANGED <<accounts, selectedAccount, currentFolderId, currentPath,
                   folders, files, loads, issued, latest>>
    /\ UNCHANGED <<service, authVars, slipVars>>

\* loadFolderContents up to the request, for the account and folder of the
\* render that calls it.
loadFolderContents(key, folderId) ==
    /\ fetching' = TRUE
    /\ issued' = issued + 1
    /\ loads' = loads \cup {[seq |-> issued + 1, email |-> EmailOf(key),
                             folder |-> folderId]}
    /\ latest' = "pending"

AccountsOutcomes == {"accounts", "none", "error"}

\* loadAccounts after the request: the first account is selected, and the
\* effect on [selectedAccount, currentFolderId] loads its folder.
AccountsRespond(outcome) ==
    /\ hubPc = "accounts"
    /\ hubPc' = "ready"
    /\ IF outcome = "accounts"
       THEN /\ accounts' = HubAccounts
            /\ selectedAccount' = AccountKey(HubAccounts[1])
            /\ loadFolderContents(AccountKey(HubAccounts[1]), currentFolderId)
       ELSE /\ accounts' = IF outcome = "none" THEN NoAccounts ELSE accounts
            /\ selectedAccount' = IF outcome = "none" THEN NoAccount
                                  ELSE selectedAccount
            /\ fetching' = FALSE
            /\ UNCHANGED <<loads, issued, latest>>
    /\ UNCHANGED <<currentFolderId, currentPath, folders, files>>
    /\ UNCHANGED <<service, authVars, slipVars>>

\* Refresh, or Reload Accounts, while no account is selected.
ReloadAccounts ==
    /\ Rendered
    /\ hubPc = "ready"
    /\ ~fetching
    /\ selectedAccount = NoAccount
    /\ hubPc' = "accounts"
    /\ fetching' = TRUE
    /\ UNCHANGED <<accounts, selectedAccount, currentFolderId, currentPath,
                   folders, files, loads, issued, latest>>
    /\ UNCHANGED <<service, authVars, slipVars>>

\* The account selector, which stays in use while a request is in flight.
SelectAccount(account) ==
    /\ Rendered
    /\ hubPc = "ready"
    /\ \E i \in DOMAIN accounts : accounts[i] = account
    /\ AccountKey(account) # selectedAccount
    /\ issued < MaxLoads
    /\ selectedAccount' = AccountKey(account)
    /\ loadFolderContents(AccountKey(account), currentFolderId)
    /\ UNCHANGED <<hubPc, accounts, currentFolderId, currentPath, folders, files>>
    /\ UNCHANGED <<service, authVars, slipVars>>

\* The folder card is rendered while fetching is false and an account is
\* selected.
FolderCardShown ==
    /\ Rendered
    /\ hubPc = "ready"
    /\ ~fetching
    /\ accounts # NoAccounts
    /\ selectedAccount # NoAccount

navigateToFolder(folderId) ==
    /\ FolderCardShown
    /\ folderId \in folders \cup {currentPath[i] : i \in DOMAIN currentPath}
                            \cup {RootFolder}
    /\ folderId # currentFolderId
    /\ issued < MaxLoads
    /\ currentFolderId' = folderId
    /\ loadFolderContents(selectedAccount, folderId)
    /\ UNCHANGED <<hubPc, accounts, selectedAccount, currentPath, folders, files>>
    /\ UNCHANGED <<service, authVars, slipVars>>

ParentFolder ==
    IF Len(currentPath) > 1 THEN currentPath[Len(currentPath) - 1]
    ELSE RootFolder

navigateUp ==
    /\ FolderCardShown
    /\ ParentFolder # currentFolderId
    /\ issued < MaxLoads
    /\ currentFolderId' = ParentFolder
    /\ loadFolderContents(selectedAccount, ParentFolder)
    /\ UNCHANGED <<hubPc, accounts, selectedAccount, currentPath, folders, files>>
    /\ UNCHANGED <<service, authVars, slipVars>>

\* Refresh with an account selected; the button is loading while fetching.
Refresh ==
    /\ Rendered
    /\ hubPc = "ready"
    /\ ~fetching
    /\ selectedAccount # NoAccount
    /\ issued < MaxLoads
    /\ loadFolderContents(selectedAccount, currentFolderId)
    /\ UNCHANGED <<hubPc, accounts, selectedAccount, currentFolderId,
                   currentPath, folders, files>>
    /\ UNCHANGED <<service, authVars, slipVars>>

\* loadFolderContents after the request: the listing returned is shown, or
\* the failure reported; fetching is reset either way.
ContentsRespond(request, ok) ==
    /\ request \in loads
    /\ ok => InDrive(request.email, request.folder)
    /\ loads' = loads \ {request}
    /\ fetching' = FALSE
    /\ latest' = IF request.seq = issued
                 THEN (IF ok THEN "ok" ELSE "failed")
                 ELSE latest
    /\ IF ok
       THEN LET data == FolderContents(request.email, request.folder)
            IN  /\ folders' = data.folders
                /\ files' = data.files
                /\ currentPath' = data.path
       ELSE UNCHANGED <<folders, files, currentPath>>
    /\ UNCHANGED <<hubPc, accounts, selectedAccount, currentFolderId, issued>>
    /\ UNCHANGED <<service, authVars, slipVars>>

\* ---- the browser before any page is open
NoBrowser ==
    /\ token = FALSE
    /\ location = "/login"
    /\ loading = TRUE
    /\ authCheck = "none"
    /\ user = NoUser
    /\ slipData = NoSlips
    /\ slipsMounted = FALSE
    /\ packingSlips = NoSlips
    /\ slipsFetching = TRUE
    /\ listLoads = 0
    /\ fetchingStatus = NoFlags
    /\ statusRequests = {}
    /\ links = << >>
    /\ hubPc = "unmounted"
    /\ accounts = NoAccounts
    /\ selectedAccount = NoAccount
    /\ currentFolderId = RootFolder
    /\ currentPath = << >>
    /\ folders = {}
    /\ files = {}
    /\ fetching = TRUE
    /\ loads = {}
    /\ issued = 0
    /\ latest = "none"

\* ------------------------------------------------------------ specification
\* The store when the model starts: shipped parcels in transit; the order
\* form and the tasks reach the other records.
InitialStore ==
    [id \in OrderIds |-> OrderRecord("shipped", "1Z999", "ups", InTransit, 0)]

Init ==
    /\ orders = InitialStore
    /\ apiKeySet = TRUE
    /\ workerUp = FALSE
    /\ schedules = {}
    /\ nextSchedule = 1
    /\ now = 0
    /\ runs = << >>
    /\ tasks = {}
    /\ results = {}
    /\ edits = 0
    /\ lastSel = {}
    /\ quiet = FALSE
    /\ reply = NoReply
    /\ answers = NoAnswers
    /\ NoBrowser

Next ==
    \/ \E i \in Intervals : ApiStart(i)
    \/ \E i \in Intervals, force \in BOOLEAN : CommandStart(i, force)
    \/ WorkerStart
    \/ ApiStop
    \/ ApiStatus
    \/ \E s \in schedules : Fire(s)
    \/ ApiRunNow
    \/ \E r \in DOMAIN runs : TickSelect(r)
    \/ ManualAll
    \/ \E id \in OrderIds : ManualOne(id)
    \/ \E t \in tasks : TaskStart(t)
    \/ \E t \in tasks, kind \in FailureKinds : TaskFails(t, kind)
    \/ \E t \in tasks, tr \in TrackingResults, ok \in BOOLEAN :
          TaskReturns(t, tr, ok)
    \/ \E id \in OrderIds : \E rec \in EditedRecords(orders[id]) :
          EditOrder(id, rec)
    \/ \E key \in BOOLEAN : SaveSettings(key)

Spec == Init /\ [][Next]_vars

\* The job: the store, the executions of the job function and their tasks,
\* and the admin UI, from the state in which the worker has started.  The
\* executions are queued by run_now and by the manual endpoints; the periodic
\* trigger queues the same function (Fire).
JobInit ==
    /\ orders = InitialStore
    /\ apiKeySet = TRUE
    /\ workerUp = TRUE
    /\ schedules = {[id |-> 1, interval |-> DefaultInterval,
                     next_run |-> DefaultInterval]}
    /\ nextSchedule = 2
    /\ now = 0
    /\ runs = << >>
    /\ tasks = {}
    /\ results = {}
    /\ edits = 0
    /\ lastSel = {}
    /\ quiet = FALSE
    /\ reply = NoReply
    /\ answers = NoAnswers
    /\ NoBrowser

JobNext ==
    \/ ApiRunNow
    \/ \E r \in DOMAIN runs : TickSelect(r)
    \/ ManualAll
    \/ \E id \in OrderIds : ManualOne(id)
    \/ \E t \in tasks : TaskStart(t)
    \/ \E t \in tasks, kind \in FailureKinds : TaskFails(t, kind)
    \/ \E t \in tasks, tr \in TrackingResults, ok \in BOOLEAN :
          TaskReturns(t, tr, ok)
    \/ \E id \in OrderIds : \E rec \in EditedRecords(orders[id]) :
          EditOrder(id, rec)
    \/ \E key \in BOOLEAN : SaveSettings(key)

JobSpec == JobInit /\ [][JobNext]_vars

\* The scheduler: the schedule rows, the worker's periodic trigger and the
\* executions it queues.  The refresh tasks and the admin UI neither read nor
\* write the schedule.
SchedulerNext ==
    \/ \E i \in Intervals : ApiStart(i)
    \/ \E i \in Intervals, force \in BOOLEAN : CommandStart(i, force)
    \/ WorkerStart
    \/ ApiStop
    \/ ApiStatus
    \/ \E s \in schedules : Fire(s)
    \/ ApiRunNow
    \/ \E r \in DOMAIN runs : TickSelect(r)

SchedulerSpec == Init /\ [][SchedulerNext]_vars

\* The periodic job end to end: the worker, which registers the job when it
\* starts, its scheduler loop, the stop request, and the refresh tasks of the
\* executions the loop queues.  While the worker runs, its loop keeps finding due rows and its
\* pool keeps taking queued functions and tasks, and every carrier request
\* ends, by an answer or by its timeout.
TickNext ==
    \/ WorkerStart
    \/ ApiStop
    \/ \E s \in schedules : Fire(s)
    \/ \E r \in DOMAIN runs : TickSelect(r)
    \/ \E t \in tasks : TaskStart(t)
    \/ \E t \in tasks, kind \in FailureKinds : TaskFails(t, kind)
    \/ \E t \in tasks, tr \in TrackingResults, ok \in BOOLEAN :
          TaskReturns(t, tr, ok)

TickFairness ==
    /\ WF_vars(\E s \in schedules : Fire(s))
    /\ WF_vars(\E r \in DOMAIN runs : TickSelect(r))
    /\ WF_vars(\E t \in tasks : TaskStart(t))
    /\ WF_vars(\E t \in tasks :
                  \/ \E kind \in FailureKinds : TaskFails(t, kind)
                  \/ \E tr \in TrackingResults, ok \in BOOLEAN :
                        TaskReturns(t, tr, ok))

TickSpec == Init /\ [][TickNext]_vars /\ TickFairness

\* The scheduler's life cycle: starts and stops through the API and by the
\* worker, the periodic trigger, and the ticks with their tasks.
LifecycleNext ==
    \/ \E i \in Intervals : ApiStart(i)
    \/ WorkerStart
    \/ ApiStop
    \/ \E s \in schedules : Fire(s)
    \/ \E r \in DOMAIN runs : TickSelect(r)
    \/ \E t \in tasks : TaskStart(t)
    \/ \E t \in tasks, kind \in FailureKinds : TaskFails(t, kind)
    \/ \E t \in tasks, tr \in TrackingResults, ok \in BOOLEAN :
          TaskReturns(t, tr, ok)

LifecycleSpec == Init /\ [][LifecycleNext]_vars

\* One execution with the answers fixed: the worker pool takes the tasks up
\* and the answers come back in any order.
PoolInit ==
    /\ orders = InitialStore
    /\ apiKeySet = TRUE
    /\ workerUp = TRUE
    /\ schedules = {[id |-> 1, interval |-> DefaultInterval,
                     next_run |-> DefaultInterval]}
    /\ nextSchedule = 2
    /\ now = 0
    /\ runs = << >>
    /\ tasks = {}
    /\ results = {}
    /\ edits = 0
    /\ lastSel = {}
    /\ quiet = FALSE
    /\ reply = NoReply
    /\ answers \in [OrderIds -> Answers]
    /\ NoBrowser

PoolNext ==
    \/ \E s \in schedules : Fire(s)
    \/ \E r \in DOMAIN runs : TickSelect(r)
    \/ \E t \in tasks : TaskStart(t)
    \/ \E t \in tasks : TaskAnswered(t)

PoolSpec == PoolInit /\ [][PoolNext]_vars

\* The service at rest while the dashboard is used.
ServiceIdle ==
    /\ orders = InitialStore
    /\ apiKeySet = TRUE
    /\ workerUp = TRUE
    /\ schedules = {}
    /\ nextSchedule = 1
    /\ now = 0
    /\ runs = << >>
    /\ tasks = {}
    /\ results = {}
    /\ edits = 0
    /\ lastSel = {}
    /\ quiet = FALSE
    /\ reply = NoReply
    /\ answers = NoAnswers

\* A protected route is opened, with or without a stored token.
AuthRouteOpened ==
    /\ token \in BOOLEAN
    /\ location = "app"
    /\ loading = TRUE
    /\ authCheck = "start"
    /\ user = NoUser

\* The packing slips page behind AuthRoute, over every list of slips.
SlipsInit ==
    /\ ServiceIdle
    /\ AuthRouteOpened
    /\ slipData \in [SlipIds -> SlipRecords]
    /\ slipsMounted = FALSE
    /\ packingSlips = NoSlips
    /\ slipsFetching = TRUE
    /\ listLoads = 0
    /\ fetchingStatus = NoFlags
    /\ statusRequests = {}
    /\ links = << >>
    /\ hubPc = "unmounted"
    /\ accounts = NoAccounts
    /\ selectedAccount = NoAccount
    /\ currentFolderId = RootFolder
    /\ currentPath = << >>
    /\ folders = {}
    /\ files = {}
    /\ fetching = TRUE
    /\ loads = {}
    /\ issued = 0
    /\ latest = "none"

SlipsNext ==
    \/ CheckUser
    \/ \E response \in Responses : MeResponds(response)
    \/ Login
    \/ SlipsMount
    \/ \E ok \in BOOLEAN : ListResponds(ok)
    \/ \E id \in SlipIds : FetchClick(id)
    \/ \E id \in SlipIds, outcome \in FetchOutcomes : FetchResponds(id, outcome)

SlipsSpec == SlipsInit /\ [][SlipsNext]_vars

\* The EMB HUB page behind AuthRoute.
HubInit ==
    /\ ServiceIdle
    /\ AuthRouteOpened
    /\ slipData = NoSlips
    /\ slipsMounted = FALSE
    /\ packingSlips = NoSlips
    /\ slipsFetching = TRUE
    /\ listLoads = 0
    /\ fetchingStatus = NoFlags
    /\ statusRequests = {}
    /\ links = << >>
    /\ hubPc = "unmounted"
    /\ accounts = NoAccounts
    /\ selectedAccount = NoAccount
    /\ currentFolderId = RootFolder
    /\ currentPath = << >>
    /\ folders = {}
    /\ files = {}
    /\ fetching = TRUE
    /\ loads = {}
    /\ issued = 0
    /\ latest = "none"

HubNext ==
    \/ CheckUser
    \/ \E response \in Responses : MeResponds(response)
    \/ Login
    \/ HubMount
    \/ \E outcome \in AccountsOutcomes : AccountsRespond(outcome)
    \/ ReloadAccounts
    \/ \E i \in DOMAIN accounts : SelectAccount(accounts[i])
    \/ \E folderId \in {RootFolder, "fa", "fb"} : navigateToFolder(folderId)
    \/ navigateUp
    \/ Refresh
    \/ \E request \in loads, ok \in BOOLEAN : ContentsRespond(request, ok)

HubSpec == HubInit /\ [][HubNext]_vars

\* ------------------------------------------------------------------- claims
LacksTracking(o) == o.tracking_ids = "" \/ o.tracking_vendor = ""
DeliveredSpellings == {text \in StatusTexts : Lower(text) = DELIVERED}
StoredDelivered(o) == o.tracking_status \in DeliveredSpellings
SameTask(t, u) == t.run = u.run /\ t.order = u.order
ResultOf(t, rs) == {res \in rs : res.run = t.run /\ res.order = t.order}

\* The step on which task t ends, in a result record or dropped.
Ends(t) == t \in tasks /\ \A u \in tasks' : ~SameTask(t, u)
\* The step on which task t sends its query to the carrier.
Queries(t) == t \in tasks /\ t.pc = "queued" /\ [t EXCEPT !.pc = "fetching"] \in tasks'
\* The step on which an execution makes its selection.
Selects(r) ==
    /\ r \in DOMAIN runs'
    /\ runs'[r].kind = "all"
    /\ runs'[r].pc = "draining"
    /\ r \in DOMAIN runs => runs[r].pc = "triggered"

\* C1: in every reachable state the selector's output holds no order whose
\* tracking_status is "delivered" in any letter case, whatever its status,
\* tracking_ids and tracking_vendor are.
C1_DeliveredNeverSelected ==
    \A id \in selectEligibleOrders : ~StoredDelivered(orders[id])

\* A shipped order with carrier and number, stored as "Delivered", was left
\* out of the latest selection while the other order was taken.
C1_Witness ==
    \E id \in OrderIds :
        /\ orders[id].tracking_status = Delivered
        /\ orders[id].status = "shipped"
        /\ ~LacksTracking(orders[id])
        /\ quiet
        /\ lastSel # {}
        /\ id \notin lastSel

\* C2: an order with empty tracking_ids or empty tracking_vendor is never in
\* the selector's output, no selection queues a task for it, and no task
\* queries the carrier for it.
C2_NoTrackingNeverQueried ==
    [][ /\ \A id \in OrderIds :
              LacksTracking(orders[id]) => id \notin selectEligibleOrders
        /\ \A r \in DOMAIN runs' : Selects(r) =>
              \A t \in tasks' : t.run = r => ~LacksTracking(orders[t.order])
        /\ \A t \in tasks : Queries(t) => ~LacksTracking(orders[t.order])
      ]_vars

\* An order without tracking number was left out of the latest selection,
\* and the carrier is being queried for the other order.
C2_Witness ==
    \E id \in OrderIds :
        /\ orders[id].tracking_ids = ""
        /\ orders[id].status = "shipped"
        /\ quiet
        /\ id \notin lastSel
        /\ \E t \in tasks : t.pc = "fetching" /\ t.order # id

\* C4: a failure of the carrier call or of the write for one order drops no
\* other task and undoes no update: every order an execution selected keeps
\* its task until it has its own result, and a successful write leaves the
\* reported status in the store.
Accounted ==
    \A r \in DOMAIN runs : runs[r].pc = "draining" =>
        \A id \in runs[r].selected :
            \/ \E t \in tasks : t.run = r /\ t.order = id
            \/ \E res \in results : res.run = r /\ res.order = id

C4_Isolation ==
    [][ /\ Accounted'
        /\ \A t \in tasks :
              (Ends(t) /\ \E res \in ResultOf(t, results') : ~res.success)
              => /\ tasks' = tasks \ {t}
                 /\ \A id \in OrderIds \ {t.order} : orders'[id] = orders[id]
        /\ \A t \in tasks : \A res \in ResultOf(t, results') :
              (Ends(t) /\ res.success /\ ~res.skipped)
              => orders'[t.order].tracking_status = res.new_status
      ]_vars

\* In one execution the refresh of one order failed and the refresh of the
\* other succeeded, its status being in the store.
C4_Witness ==
    \E a, b \in results :
        /\ a.run = b.run
        /\ a.order # b.order
        /\ a.error \in FailureKinds \cup {"StorageError"}
        /\ b.success /\ ~b.skipped
        /\ orders[b.order].tracking_status = Delivered
        /\ edits = 0

\* C5: when a refresh fails after its query was sent (carrier failure or
\* write failure), the stored record is unchanged, a failure is recorded for
\* that order, and an order that was eligible is still eligible.
Fails(t) ==
    /\ Ends(t)
    /\ t.pc = "fetching"
    /\ \A res \in ResultOf(t, results') : ~res.success

C5_FailureLeavesOrderEligible ==
    [][ \A t \in tasks : Fails(t) =>
          /\ orders'[t.order] = orders[t.order]
          /\ \E res \in ResultOf(t, results') :
                res.error \in FailureKinds \cup {"StorageError"}
          /\ t.order \in selectEligibleOrders
                => t.order \in selectEligibleOrders'
      ]_vars

\* A refresh of an order failed in the first execution, and the second
\* execution selected the order again.
C5_Witness ==
    /\ Len(runs) = 2
    /\ edits = 0
    /\ \E res \in results :
          /\ res.error = "Transient"
          /\ \E r \in DOMAIN runs :
                /\ r # res.run
                /\ runs[r].kind = "all"
                /\ runs[res.run].kind = "all"
                /\ res.order \in runs[r].selected
                /\ orders[res.order].tracking_status = InTransit
                /\ \A t \in tasks : t.run = r /\ t.pc = "queued"

\* C6: whenever a task persists a status that the adapter classified as
\* delivered, the selector excludes the order from then on.
C6_DeliveredClassificationSkips ==
    [][ \A t \in tasks : \A res \in ResultOf(t, results') :
          (Ends(t) /\ res.success /\ ~res.skipped /\ res.is_delivered)
          => t.order \notin selectEligibleOrders'
      ]_vars

\* C7: the carrier is never queried for an order stored as "delivered" (any
\* letter case) at the time of the query; a refresh of such an order ends in
\* a skipped success result.
C7_DeliveredNeverQueried ==
    [][ \A t \in tasks :
          /\ Queries(t) => ~StoredDelivered(orders[t.order])
          /\ (t.pc = "queued" /\ Ends(t) /\ StoredDelivered(orders[t.order]))
             => /\ ResultOf(t, results') # {}
                /\ \A res \in ResultOf(t, results') : res.success /\ res.skipped
                /\ orders' = orders
      ]_vars

\* A manual update of one order stored as "Delivered" was answered with a
\* skipped success.
C7_Witness ==
    \E res \in results :
        /\ runs[res.run].kind = "single"
        /\ res.success /\ res.skipped
        /\ orders[res.order].tracking_status = Delivered

\* C8: a selection made when the previous execution has drained, with no
\* change from outside since the previous selection, returns the previous
\* eligible set less exactly the orders now stored as delivered.
C8_TickIdempotence ==
    [][ \A r \in DOMAIN runs' :
          (Selects(r) /\ quiet /\ tasks = {})
          => runs'[r].selected =
                lastSel \ {id \in OrderIds : StoredDelivered(orders[id])}
      ]_vars

\* Two executions in a row with nothing else touching the store: the first
\* took both orders and delivered order 1, the second took order 2 alone.
C8_Witness ==
    /\ Len(runs) = 2
    /\ edits = 0
    /\ \A r \in DOMAIN runs : runs[r].kind = "all"
    /\ \E r, q \in DOMAIN runs :
          /\ runs[r].selected = OrderIds
          /\ runs[q].selected = {2}
          /\ runs[q].pc = "draining"
    /\ orders[1].tracking_status = Delivered
    /\ \E t \in tasks : t.order = 2 /\ t.pc = "queued"
    /\ Cardinality(results) = 2

\* C3: whatever start, stop, run_now, status and worker start have been
\* handled, at most one row of the tracking job is registered, and exactly
\* one while the latest of the start, stop and status requests is a start.
C3_OneRegistration ==
    /\ Cardinality(schedules) <= 1
    /\ reply.action \in {"start", "command"} => Cardinality(schedules) = 1

\* The start action was handled twice with no worker running, and one row
\* is registered.
C3_Witness ==
    /\ ~workerUp
    /\ nextSchedule = 3
    /\ reply.action = "start"
    /\ reply.schedule_id = 2
    /\ Cardinality(schedules) = 1

\* C9 as stated: a start without the force flag, handled while a row is
\* registered, changes nothing of the registration, whatever the interval.
C9_StartWithoutForceIsNoOp ==
    [][ \A i \in Intervals :
          (schedules # {} /\ (ApiStart(i) \/ CommandStart(i, FALSE)))
          => UNCHANGED <<schedules, nextSchedule>>
      ]_vars

\* C9 as amended: handled while a row is registered, the management command
\* without --force changes nothing of the registration, and the start action
\* of the API replaces it by one row with the interval passed.
C9_StartWithoutForce ==
    [][ \A i \in Intervals : schedules # {} =>
          /\ CommandStart(i, FALSE) => UNCHANGED <<schedules, nextSchedule>>
          /\ ApiStart(i) =>
                /\ Cardinality(schedules') = 1
                /\ \A s \in schedules' :
                      s.interval = i /\ s.next_run = now + i
      ]_vars

\* The command without --force was handled with another interval than the
\* registered one, and the registration kept its interval.
C9_Witness ==
    /\ reply.action = "command"
    /\ ~reply.force
    /\ reply.schedule_id = 0
    /\ \E s \in schedules : s.interval # reply.interval

\* C10: a start with the force flag, handled while a row is registered,
\* replaces it in one step: no state holds two rows, the old row is gone and
\* the one row left has the new interval.
C10_ForceRestartReplaces ==
    [][ /\ Cardinality(schedules') <= 1
        /\ \A i \in Intervals :
              (schedules # {} /\ CommandStart(i, TRUE))
              => /\ Cardinality(schedules') = 1
                 /\ \A s \in schedules' :
                       /\ s.interval = i
                       /\ \A old \in schedules : old.id # s.id
      ]_vars

\* A forced start with the custom interval replaced the row the worker had
\* created with the default interval.
C10_Witness ==
    /\ workerUp
    /\ reply.action = "command"
    /\ reply.force
    /\ reply.interval = CustomInterval
    /\ nextSchedule = 3
    /\ schedules = {[id |-> 2, interval |-> CustomInterval,
                     next_run |-> now + CustomInterval]}

\* C11: a stop request always ends with no registration and the answer of a
\* stop, also when nothing was registered; it then changes nothing else, so
\* a second stop leaves the state the first one made.
C11_StopIdempotent ==
    [][ ApiStop =>
          /\ schedules' = {}
          /\ reply' = Reply("stop", 0, FALSE, 0, FALSE)
          /\ UNCHANGED <<orders, apiKeySet, workerUp, nextSchedule, now, runs,
                         tasks, results, edits, lastSel, quiet>>
          /\ (schedules = {} /\ reply.action = "stop") => UNCHANGED vars
      ]_vars

\* A stop was answered in a run of the program in which no registration was
\* ever made.
C11_Witness ==
    /\ reply = Reply("stop", 0, FALSE, 0, FALSE)
    /\ nextSchedule = 1
    /\ schedules = {}

\* C13: a run_now request queues exactly one execution and leaves the
\* schedule as it is: the same rows with the same interval and next fire
\* time, and none when there was none.
C13_RunNowLeavesSchedule ==
    [][ ApiRunNow =>
          /\ Len(runs') = Len(runs) + 1
          /\ \A r \in DOMAIN runs : runs'[r] = runs[r]
          /\ runs'[Len(runs')].kind = "all"
          /\ schedules' = schedules
          /\ nextSchedule' = nextSchedule
          /\ tasks' = tasks
      ]_vars

\* Two executions were queued by run_now while the registration made at
\* minute 0 with the custom interval still has its first fire time.
C13_Witness ==
    /\ Len(runs) = 2
    /\ now = 0
    /\ schedules = {[id |-> 1, interval |-> CustomInterval,
                     next_run |-> CustomInterval]}

\* An execution whose selection is made and whose tasks have all ended.
Drained(r) == r \in DOMAIN runs /\ RunComplete(r)

\* C12: a stop removes the registration and touches no execution, task,
\* result or order; while no registration exists the scheduler loop queues
\* no execution; and every execution queued, before a stop or after,
\* makes its selection and has all its tasks end.
C12_StopLetsTickDrain ==
    /\ [][ /\ ApiStop => /\ schedules' = {}
                         /\ UNCHANGED <<runs, tasks, results, orders>>
           /\ schedules = {} => Len(runs') = Len(runs)
         ]_vars
    /\ \A r \in 1..MaxRuns : [](r \in DOMAIN runs => <>Drained(r))

\* The latest request is a stop, no registration is left, and the execution
\* the loop had queued before is draining, with a carrier request out.
C12_Witness ==
    /\ reply.action = "stop"
    /\ schedules = {}
    /\ Len(runs) = 1
    /\ runs[1].pc = "draining"
    /\ \E t \in tasks : t.run = 1 /\ t.pc = "fetching"

Draining(r) ==
    /\ r \in DOMAIN runs
    /\ runs[r].pc = "draining"
    /\ \E t \in tasks : t.run = r

\* C18: of the executions the scheduler loop queued for the registered job,
\* at most one at a time has tasks in flight.
C18_NoOverlappingTicks ==
    Cardinality({r \in DOMAIN runs : Draining(r)}) <= 1

\* C19: no two refresh tasks in flight are for the same order, whichever
\* executions they belong to.
C19_OneTaskPerOrder ==
    \A t, u \in tasks : t.order = u.order => t = u

\* The filter as the specification words it, field by field.
FilterPredicate(o) ==
    /\ o.status = "shipped"
    /\ o.tracking_ids # ""
    /\ o.tracking_vendor # ""
    /\ o.tracking_status \notin DeliveredSpellings

\* C14: the selector's output is exactly the set of orders that are shipped,
\* have tracking numbers and a vendor, and are not stored as "delivered" in
\* any letter case; the step that makes a selection records that set, queues
\* a task for each of its orders and for no other, and changes no order.
C14_SelectorExact ==
    /\ [](selectEligibleOrders = {id \in OrderIds : FilterPredicate(orders[id])})
    /\ [][ \A r \in DOMAIN runs' : Selects(r) =>
             /\ orders' = orders
             /\ runs'[r].selected = {id \in OrderIds : FilterPredicate(orders[id])}
             /\ {t.order : t \in {u \in tasks' : u.run = r}} = runs'[r].selected
         ]_vars

\* A selection was made after the form had moved one order out of "shipped":
\* that order was left out and the other one taken.
C14_Witness ==
    /\ quiet
    /\ edits = 1
    /\ \E id \in OrderIds :
          /\ orders[id].status = "new_order"
          /\ ~LacksTracking(orders[id])
          /\ ~StoredDelivered(orders[id])
          /\ lastSel = OrderIds \ {id}

\* C15: a bulk update or an execution of the job that finds no eligible
\* order queues no task, changes no order and records no result; it is
\* complete at once, with a summary of zero attempted and zero failed, and no
\* carrier request is ever made for it.
C15_NothingEligible ==
    /\ [][ \A r \in DOMAIN runs' : (Selects(r) /\ selectEligibleOrders = {}) =>
             /\ tasks' = tasks
             /\ orders' = orders
             /\ results' = results
             /\ runs'[r].selected = {}
         ]_vars
    /\ [](\A r \in DOMAIN runs :
            (runs[r].kind = "all" /\ runs[r].pc = "draining"
               /\ runs[r].selected = {}) =>
                 /\ RunComplete(r)
                 /\ Summary(r) = [attempted |-> 0, succeeded |-> 0,
                                  failed |-> 0, reasons |-> {}])

\* The first execution stored a delivered status on every order, and the
\* second one, a bulk update, found nothing to do.
C15_Witness ==
    /\ Len(runs) = 2
    /\ runs[2].kind = "all"
    /\ runs[2].pc = "draining"
    /\ runs[2].selected = {}
    /\ \A id \in OrderIds : orders[id].tracking_status = Delivered
    /\ \A id \in OrderIds : \E res \in results :
          res.run = 1 /\ res.order = id /\ res.success

\* The step on which a queued task is taken up.
TakenUp(t) == t \in tasks /\ t.pc = "queued" /\ t \notin tasks'

C20_TaskFrame ==
    [][ \A t \in tasks : t \notin tasks' =>
          /\ DOMAIN orders' = DOMAIN orders
          /\ \A id \in OrderIds \ {t.order} : orders'[id] = orders[id]
          /\ orders'[t.order].status = orders[t.order].status
          /\ orders'[t.order].tracking_ids = orders[t.order].tracking_ids
          /\ orders'[t.order].tracking_vendor = orders[t.order].tracking_vendor
      ]_vars

\* One order's refresh stored a delivered status and the other order's
\* refresh failed; the other order, with the same tracking number, is as it
\* was.
C20_Witness ==
    \E res, bad \in results :
        /\ res.run = bad.run
        /\ res.success /\ ~res.skipped
        /\ bad.error = "Transient"
        /\ orders[res.order].tracking_status = DeliveredFrontDoor
        /\ orders[res.order].tracking_ids = orders[bad.order].tracking_ids
        /\ orders[bad.order] = InitialStore[bad.order]

\* The same execution with one worker: the orders of the selection are
\* refreshed one after the other, each task run to its end before the next.
SequentialOutcome(o, a) ==
    IF Preflight(o, apiKeySet) # "query" THEN "preflight"
    ELSE IF a.error # "" THEN "failed"
    ELSE IF a.ok THEN "written"
    ELSE "unwritten"

RECURSIVE SequentialStore(_, _, _)
SequentialStore(store, ids, at) ==
    IF ids = << >> THEN store
    ELSE LET id == Head(ids)
             a == answers[id]
         IN  SequentialStore(
                 IF SequentialOutcome(store[id], a) = "written"
                 THEN [store EXCEPT ![id].tracking_status = a.tr.status_text,
                                    ![id].updated_at = at]
                 ELSE store,
                 Tail(ids), at)

SequentialResult(r, id, o, a) ==
    LET t == NewTask(r, id)
        outcome == SequentialOutcome(o, a)
    IN  IF outcome = "written" THEN Updated(t, a.tr)
        ELSE IF outcome = "failed" THEN Result(t, FALSE, FALSE, a.error)
        ELSE IF outcome = "unwritten" THEN Result(t, FALSE, FALSE, "StorageError")
        ELSE LET pre == Preflight(o, apiKeySet)
             IN  Result(t, pre = "skipped", pre = "skipped",
                        IF pre = "skipped" THEN "" ELSE pre)

RECURSIVE SequentialResults(_, _, _)
SequentialResults(r, store, ids) ==
    IF ids = << >> THEN {}
    ELSE {SequentialResult(r, Head(ids), store[Head(ids)], answers[Head(ids)])}
         \cup SequentialResults(r, store, Tail(ids))

RECURSIVE Ascending(_)
Ascending(ids) ==
    IF ids = {} THEN << >>
    ELSE LET least == CHOOSE x \in ids : \A y \in ids : x <= y
         IN  <<least>> \o Ascending(ids \ {least})

\* C21: with the answers fixed, when the only execution has drained, however
\* its tasks were interleaved, the store and the results are those of running
\* the selected orders one after the other.
C21_PoolEqualsSequential ==
    (Len(runs) = 1 /\ Drained(1)) =>
        /\ orders = SequentialStore(InitialStore, Ascending(runs[1].selected), now)
        /\ RunResults(1) =
              SequentialResults(1, InitialStore, Ascending(runs[1].selected))

\* The execution has drained with one order written as delivered and the
\* other order's request failed.
C21_Witness ==
    /\ Len(runs) = 1
    /\ Drained(1)
    /\ runs[1].selected = OrderIds
    /\ \E id \in OrderIds : orders[id].tracking_status = Delivered
    /\ \E res \in results : res.error = "Transient"

\* The results an execution recorded for one order.
OutcomesOf(r, id) == {res \in RunResults(r) : res.order = id}

\* C22: when an execution that made a selection has no task left, every
\* selected order has exactly one result and no other order has one; the
\* summary's attempted is the number of selected orders and is succeeded
\* plus failed, and the failure reasons are one per failed order.
C22_CompleteMeansAllOutcomes ==
    \A r \in DOMAIN runs :
        (runs[r].kind = "all" /\ RunComplete(r)) =>
            /\ \A id \in runs[r].selected : Cardinality(OutcomesOf(r, id)) = 1
            /\ \A res \in RunResults(r) : res.order \in runs[r].selected
            /\ Summary(r).attempted = Cardinality(runs[r].selected)
            /\ Summary(r).attempted = Summary(r).succeeded + Summary(r).failed
            /\ Cardinality(Summary(r).reasons) = Summary(r).failed
            /\ {x[1] : x \in Summary(r).reasons} =
                  {res.order : res \in {y \in RunResults(r) : ~y.success}}
            /\ \A x \in Summary(r).reasons : x[2] # ""

\* An execution over both orders is complete with one success and one
\* failure.
C22_Witness ==
    \E r \in DOMAIN runs :
        /\ runs[r].kind = "all"
        /\ runs[r].selected = OrderIds
        /\ RunComplete(r)
        /\ Summary(r).succeeded = 1
        /\ Summary(r).failed = 1

\* C23: the job writes an order's tracking_status only on the step on which
\* the carrier request of a task for that order returns a status, and the
\* text written is that status; a step on which a request fails, and a step
\* on which a task is taken up, write nothing.
C23_WriteAfterFetch ==
    [][ edits' = edits =>
          /\ \A id \in OrderIds : orders'[id] # orders[id] =>
                \E t \in tasks :
                   /\ t.order = id
                   /\ t.pc = "fetching"
                   /\ Ends(t)
                   /\ \E res \in ResultOf(t, results') \ results :
                         /\ res.success
                         /\ res.new_status = orders'[id].tracking_status
          /\ \A t \in tasks :
                (Ends(t) /\ \E res \in ResultOf(t, results') \ results : ~res.success)
                   => orders' = orders
          /\ \A t \in tasks : TakenUp(t) => orders' = orders
      ]_vars

\* One request returned a status that was written, and another request
\* failed and left its order as it was.
C23_Witness ==
    \E ok, bad \in results :
        /\ ok.success /\ ~ok.skipped
        /\ ok.new_status = DeliveredFrontDoor
        /\ orders[ok.order].tracking_status = DeliveredFrontDoor
        /\ bad.error = "ProtocolError"
        /\ bad.order # ok.order
        /\ orders[bad.order].tracking_status = InTransit

\* A task of execution r for order id is in flight.
InFlight(r, id) == \E t \in tasks : t.run = r /\ t.order = id

\* Execution r has recorded its outcome for order id and holds no task for it.
Settled(r, id) ==
    /\ ~InFlight(r, id)
    /\ \E res \in results : res.run = r /\ res.order = id

\* C24: under fair scheduling every task of a tick ends with a recorded
\* outcome and every tick the loop started is complete in the end; a carrier
\* request that times out ends its own task with a Transient failure,
\* leaving every other task in flight and every order as it was.
C24_TickTerminates ==
    /\ \A r \in 1..MaxRuns : \A id \in OrderIds :
          InFlight(r, id) ~> Settled(r, id)
    /\ \A r \in 1..MaxRuns :
          (r \in DOMAIN runs /\ runs[r].pc = "triggered") ~> Drained(r)
    /\ [][ \A t \in tasks :
              (Ends(t) /\ Result(t, FALSE, FALSE, "Transient") \in results' \ results)
                 => /\ tasks' = tasks \ {t}
                    /\ orders' = orders
                    /\ runs' = runs
         ]_vars

\* A tick over both orders is complete: one request timed out and the other
\* order's status was written.
C24_Witness ==
    \E r \in DOMAIN runs :
        /\ Drained(r)
        /\ runs[r].selected = OrderIds
        /\ \E bad, ok \in RunResults(r) :
              /\ bad.error = "Transient"
              /\ ok.success /\ ~ok.skipped
              /\ ok.order # bad.order

\* C26: a step that changes an order's tracking_status sets the order's
\* updated_at to the time of that step, and a job step changes updated_at
\* only together with writing tracking_status.
C26_StatusWithTimestamp ==
    [][ \A id \in OrderIds :
          /\ orders'[id].tracking_status # orders[id].tracking_status
                => orders'[id].updated_at = now'
          /\ orders'[id].updated_at # orders[id].updated_at
                => \E t \in tasks :
                      /\ t.order = id
                      /\ Ends(t)
                      /\ \E res \in ResultOf(t, results') \ results :
                            /\ res.success
                            /\ res.new_status = orders'[id].tracking_status
      ]_vars

\* An order's status was written by the tick, at the tick's time.
C26_Witness ==
    \E id \in OrderIds :
        /\ orders[id].tracking_status = Delivered
        /\ orders[id].tracking_status # InitialStore[id].tracking_status
        /\ orders[id].updated_at = DefaultInterval
        /\ now = DefaultInterval

\* A tick is in flight: queued by the trigger and not yet complete.
TickInFlight ==
    \E r \in DOMAIN runs : runs[r].pc = "triggered" \/ Draining(r)

\* The scheduler's state in the specification's terms.
SchedulerState ==
    IF TickInFlight THEN "Running"
    ELSE IF schedules # {} THEN "Scheduled"
    ELSE "Stopped"

FourTransitions ==
    {<<"Stopped", "Scheduled">>, <<"Scheduled", "Running">>,
     <<"Running", "Scheduled">>, <<"Scheduled", "Stopped">>}

\* C25 as stated: the scheduler's state changes only from Stopped to
\* Scheduled, from Scheduled to Running, from Running to Scheduled and from
\* Scheduled to Stopped.
C25_OnlyFourTransitions ==
    [][ SchedulerState' # SchedulerState
          => <<SchedulerState, SchedulerState'>> \in FourTransitions ]_vars

\* C25 as amended: the state changes only along those four transitions and,
\* when the last tick in flight completes with no registration left, from
\* Running to Stopped; the periodic trigger queues a tick only while a
\* registration exists, and a stop leaves the state Stopped or Running.
C25_Transitions ==
    [][ /\ SchedulerState' # SchedulerState
           => \/ <<SchedulerState, SchedulerState'>> \in FourTransitions
              \/ /\ <<SchedulerState, SchedulerState'>> = <<"Running", "Stopped">>
                 /\ schedules = {}
                 /\ Len(runs') = Len(runs)
        /\ Len(runs') > Len(runs)
           => /\ SchedulerState # "Stopped"
              /\ schedules # {}
              /\ SchedulerState' = "Running"
        /\ ApiStop => SchedulerState' # "Scheduled"
      ]_vars

\* A stop was answered while a tick was in flight: no registration is left
\* and the tick, with one outcome recorded, still has a task.
C25_Witness ==
    /\ reply.action = "stop"
    /\ schedules = {}
    /\ SchedulerState = "Running"
    /\ \E res \in results : res.run = 1
    /\ \E t \in tasks : t.run = 1 /\ t.pc = "queued"

\* The first comma-separated entry of a list: what stands before the first
\* comma, the whole list when it has none.
FirstEntry(ids) ==
    LET commas == {i \in 1..Len(ids) : ids[i] = ","}
    IN  IF commas = {} THEN ids
        ELSE SubSeq(ids, 1, (CHOOSE i \in commas : \A j \in commas : i <= j) - 1)

Blank(s) == \A i \in 1..Len(s) : s[i] = " "

\* A text without the spaces around it.
Stripped(s) ==
    LET inked == {i \in 1..Len(s) : s[i] # " "}
    IN  IF inked = {} THEN << >>
        ELSE SubSeq(s, CHOOSE i \in inked : \A j \in inked : i <= j,
                       CHOOSE i \in inked : \A j \in inked : i >= j)

CarrierBase(vendor) ==
    IF vendor = FEDEX THEN FedexBase
    ELSE IF vendor = UPS THEN UpsBase
    ELSE UspsBase

\* C27: the link rendered for a row is null when the vendor is empty, when
\* the list of tracking numbers is empty or its first comma-separated entry
\* is blank, and when the vendor, lower-cased, is not fedex, ups or usps;
\* otherwise it is that carrier's URL followed by the first entry, trimmed,
\* and by nothing of the later entries.
C27_TrackingUrl ==
    \A id \in DOMAIN links :
        LET vendor == packingSlips[id].tracking_vendor
            ids == packingSlips[id].tracking_ids
        IN  IF \/ vendor = << >>
               \/ ids = << >>
               \/ Blank(FirstEntry(ids))
               \/ Lower(vendor) \notin {FEDEX, UPS, USPS}
            THEN links[id] = NoUrl
            ELSE links[id] = Url(CarrierBase(Lower(vendor)),
                                 Stripped(FirstEntry(ids)))

\* The table shows a FedEx link built from the first of two padded numbers,
\* and no link for a row of an unknown carrier.
C27_Witness ==
    /\ DOMAIN links = SlipIds
    /\ packingSlips[1] = SlipRecord(<<"F","e","d","E","x">>,
                                    <<" ","1","Z"," ",",","2","Z">>)
    /\ links[1] = Url(FedexBase, <<"1","Z">>)
    /\ packingSlips[2] = SlipRecord(<<"d","h","l">>, <<"1","Z">>)
    /\ links[2] = NoUrl

\* C28: a fetch-tracking-status request is sent only for a record that has
\* tracking numbers and a vendor; a record's flag is true exactly while its
\* request is in flight; the step on which the request settles, with any
\* outcome, sets the flag to false; and a step that sends or settles one
\* record's request leaves every other record's flag as it was.
C28_FetchStatusFlag ==
    /\ [][ \A id \in SlipIds :
              /\ (id \in statusRequests' /\ id \notin statusRequests)
                    => HasTrackingInfo(packingSlips[id])
              /\ (id \in statusRequests /\ id \notin statusRequests')
                    => /\ id \in DOMAIN fetchingStatus'
                       /\ fetchingStatus'[id] = FALSE
              /\ (id \in statusRequests <=> id \in statusRequests')
                    => /\ id \in DOMAIN fetchingStatus' <=> id \in DOMAIN fetchingStatus
                       /\ id \in DOMAIN fetchingStatus
                             => fetchingStatus'[id] = fetchingStatus[id]
         ]_vars
    /\ [](\A id \in SlipIds : Flag(id) <=> id \in statusRequests)

\* One record's request is in flight with its flag set, while the other
\* record's request has settled and its flag is false.
C28_Witness ==
    /\ statusRequests = {1}
    /\ Flag(1)
    /\ 2 \in DOMAIN fetchingStatus
    /\ fetchingStatus[2] = FALSE

\* The check of the user is under way.
AuthPending == authCheck \in {"start", "request"}

\* C29: the children of AuthRoute are rendered only after authHandler
\* returned a user, never while the check is pending; a check that ends
\* without a user, for want of a token or by a failed request, removes the
\* token, sends the browser to /login and renders no children; and without
\* a token no request is made.
C29_AuthGate ==
    /\ [](Rendered => (authCheck = "done" /\ user # NoUser /\ token))
    /\ [](AuthPending => ~Rendered)
    /\ [](hubPc # "unmounted" => user # NoUser)
    /\ [][ /\ (AuthPending /\ authCheck' = "done" /\ user' = NoUser)
              => (~token' /\ location' = "/login" /\ ~Rendered')
           /\ (authCheck = "start" /\ ~token /\ authCheck' # authCheck)
              => (authCheck' = "done" /\ user' = NoUser)
         ]_vars

\* The check returned a user and the page behind AuthRoute is in use.
C29_Witness ==
    /\ Rendered
    /\ user = "admin"
    /\ hubPc = "ready"
    /\ selectedAccount # NoAccount

\* C30: once no loadFolderContents request is in flight and the request
\* sent last has succeeded, the folders, files and path shown are those of
\* the selected account and the current folder, and fetching is false.
C30_LatestNavigationShown ==
    (hubPc = "ready" /\ loads = {} /\ latest = "ok" /\ selectedAccount # NoAccount) =>
        LET data == FolderContents(EmailOf(selectedAccount), currentFolderId)
        IN  /\ folders = data.folders
            /\ files = data.files
            /\ currentPath = data.path
            /\ ~fetching

====
